---- MODULE Spec2Model ----
(***************************************************************************)
(* Model of the ETN username metadata service (src/main.py): the JSON      *)
(* metadata endpoint get_username_json and the PNG endpoint                *)
(* get_username_image, with the rasters the PNG endpoint loads, draws on   *)
(* and encodes.                                                            *)
(*                                                                         *)
(* Strings are TLA+ strings (\o, Len and SubSeq act on them).  A raster is *)
(* a record [mode, size, px] with px a function from <<x, y>> to a colour  *)
(* tuple.  Image objects live in the heap `images`, indexed by object      *)
(* identity, so that drawing in place and sharing are visible.  Float      *)
(* coordinates are exact rationals [n, d] (d > 0).  The statements of the  *)
(* PNG handler are separate steps of a request, so that requests           *)
(* interleave at every statement boundary.                                 *)
(***************************************************************************)
EXTENDS Integers, Sequences, FiniteSets, TLC

\* ---------------------------------------------------------------- bounds
MaxRequests == 2

\* ------------------------------------------------- configuration (l.8-14)
BASE_URL == "https://u-nft.etnecosystem.org/api"
BACKGROUND_IMAGE_PATH == "assets/background.png"
FONT_PATH == "assets/font.ttf"
FONT_SIZE == 110
TEXT_COLOR == <<0, 0, 0>>
SHADOW_COLOR == <<255, 255, 255>>
SHADOW_OFFSET == <<5, 7>>

\* ------------------------------------------------------------ input sets
Requests == 1..MaxRequests

\* the route /api/{username}.json|.png binds a non-empty path segment,
\* taken as it is
Usernames == {"a", "aB"}

\* file contents the two asset paths can hold
Missing == [kind |-> "missing"]
Corrupt == [kind |-> "corrupt"]

Checker(w, h, mode, c1, c2) ==
  [kind |-> "image", mode |-> mode, size |-> <<w, h>>,
   px |-> [p \in (0..(w - 1)) \X (0..(h - 1)) |->
             IF (p[1] + p[2]) % 2 = 0 THEN c1 ELSE c2]]

BackgroundFiles ==
  {Missing, Corrupt,
   Checker(12, 12, "RGB", <<200, 30, 30>>, <<30, 30, 200>>),
   Checker(8, 8, "RGBA", <<0, 0, 0, 255>>, <<10, 200, 10, 128>>)}

\* a typeface in font units: glyph cell advance and height, and the offset
\* of the ink from the drawing origin (bearing)
Face == [kind |-> "font", units_per_em |-> 330, advance |-> 9, height |-> 27,
         left |-> 3, top |-> 6]

FontFiles == {Missing, Corrupt, Face}

\* ------------------------------------------------ metadata (l.39-50)
\* variant: the name is the bare username
FormatDisplayNamePlain(u) == u

\* l.43: display_name = f"@{username}"
FormatDisplayName(u) == "@" \o u

\* variant: the separator between base URL and username is lost
ImageUrlNoSlash(u) == BASE_URL \o u \o ".png"

\* l.47: image=f"{BASE_URL}/{username}.png"
ImageUrl(u) == BASE_URL \o "/" \o u \o ".png"

\* l.44-49: NftMetadata(...).dict()
BuildMetadata(u) ==
  [name |-> FormatDisplayName(u),
   description |-> "An ETN Ecosystem Username.",
   image |-> ImageUrl(u),
   attributes |-> <<>>]

\* ------------------------------------------------------------- responses
\* l.50, l.97-102: JSONResponse(status_code, content)
JSONResponse(status, content) ==
  [status_code |-> status, media_type |-> "application/json",
   content |-> content]

\* l.94: Response(content=..., media_type="image/png"), status 200
ImageResponse(bytes) ==
  [status_code |-> 200, media_type |-> "image/png", content |-> bytes]

\* ------------------------------------------------------------ exceptions
\* exception classes that derive from FileNotFoundError
IsFileNotFoundError(e) == e.type = "FileNotFoundError"

\* l.96-102: the two except clauses, in their order
HandleException(e) ==
  IF IsFileNotFoundError(e)
  THEN JSONResponse(500,
         [error |-> "Server asset file not found (background or font)."])
  ELSE JSONResponse(500, [error |-> e.msg])

\* exceptions Image.open raises for a file that cannot be loaded (l.64):
\* the builtin open() fails on a missing file, the format probe on a
\* file that is no image
OpenImageError(file) ==
  IF file.kind = "missing"
  THEN [type |-> "FileNotFoundError",
        msg |-> "[Errno 2] No such file or directory: 'assets/background.png'"]
  ELSE [type |-> "UnidentifiedImageError",
        msg |-> "cannot identify image file 'assets/background.png'"]

\* the exception ImageFont.truetype raises for a file that cannot be
\* loaded (l.65): the path is handed to FreeType, and FreeType's failure to
\* open or to parse it surfaces as a plain OSError
TruetypeError(file) ==
  IF file.kind = "missing"
  THEN [type |-> "OSError", msg |-> "cannot open resource"]
  ELSE [type |-> "OSError", msg |-> "unknown file format"]

\* failures of measuring, drawing or encoding (l.75-91): allocation
Faults == {[type |-> "MemoryError", msg |-> ""]}

\* ---------------------------------------------------------------- rasters
\* l.64: .convert("RGBA"): every pixel gets four bands, opaque if it had
\* three
ToRGBA(c) == IF Len(c) = 3 THEN c \o <<255>> ELSE c

ConvertRGBA(file) ==
  [mode |-> "RGBA", size |-> file.size,
   px |-> [p \in DOMAIN file.px |-> ToRGBA(file.px[p])]]

\* l.65: ImageFont.truetype(FONT_PATH, FONT_SIZE)
Truetype(file, size) == [face |-> file, size |-> size]

\* font units to pixels at the font's size
Px(font, units) == (units * font.size) \div font.face.units_per_em

\* the ink of one character inside its cell: the whole cell but one hole
\* whose place depends on the character
GlyphHole(c) ==
  CASE c = "@" -> <<0, 0>>
    [] c = "a" -> <<1, 1>>
    [] c = "B" -> <<2, 2>>
    [] OTHER -> <<0, 1>>

Char(text, i) == SubSeq(text, i, i)

\* l.75: draw.textbbox((0, 0), text, font=font) = (left, top, right, bottom)
TextBBox(font, text) ==
  <<Px(font, font.face.left),
    Px(font, font.face.top),
    Px(font, font.face.left) + Len(text) * Px(font, font.face.advance),
    Px(font, font.face.top) + Px(font, font.face.height)>>

\* ----------------------------------------------------------------- layout
\* l.76-77
TextWidth(bbox) == bbox[3] - bbox[1]
TextHeight(bbox) == bbox[4] - bbox[2]

\* variant: the text is centred vertically as it is horizontally
PositionCentred(img_width, img_height, text_width, text_height) ==
  <<[n |-> img_width - text_width, d |-> 2],
    [n |-> img_height - text_height, d |-> 2]>>

\* l.80: ((img_width - text_width) / 2, (img_height - text_height) / 2.1)
Position(img_width, img_height, text_width, text_height) ==
  <<[n |-> img_width - text_width, d |-> 2],
    [n |-> 10 * (img_height - text_height), d |-> 21]>>

PlusInt(q, k) == [n |-> q.n + k * q.d, d |-> q.d]

\* l.81
ShadowPosition(position) ==
  <<PlusInt(position[1], SHADOW_OFFSET[1]),
    PlusInt(position[2], SHADOW_OFFSET[2])>>

\* ---------------------------------------------------------------- drawing
\* ImageDraw.text places the glyph bitmap at int(xy[i]): truncation
\* towards zero
Trunc(q) == IF q.n >= 0 THEN q.n \div q.d ELSE -((-q.n) \div q.d)

\* the pixels the glyphs of text cover when drawn at xy (before clipping)
GlyphInk(font, c) ==
  {g \in (0..(Px(font, font.face.advance) - 1))
           \X (0..(Px(font, font.face.height) - 1)) : g # GlyphHole(c)}

Ink(font, text, xy) ==
  UNION {{<<Trunc(xy[1]) + Px(font, font.face.left)
              + (i - 1) * Px(font, font.face.advance) + g[1],
            Trunc(xy[2]) + Px(font, font.face.top) + g[2]>> :
            g \in GlyphInk(font, Char(text, i))} : i \in 1..Len(text)}

\* variant: the canvas grows to the right and downwards to hold the ink
DrawTextGrow(im, xy, text, font, fill) ==
  LET ink == Ink(font, text, xy)
      MaxOf(S) == CHOOSE m \in S : \A n \in S : n <= m
      w == MaxOf({im.size[1]} \cup {p[1] + 1 : p \in ink})
      h == MaxOf({im.size[2]} \cup {p[2] + 1 : p \in ink})
  IN [mode |-> im.mode, size |-> <<w, h>>,
      px |-> [p \in (0..(w - 1)) \X (0..(h - 1)) |->
                IF p \in ink THEN ToRGBA(fill)
                ELSE IF p \in DOMAIN im.px THEN im.px[p]
                ELSE <<0, 0, 0, 0>>]]

\* l.84, l.87: draw.text(xy, text, font=font, fill=fill) on raster im: the
\* ink inside the canvas takes the fill colour, the canvas keeps its size
DrawText(im, xy, text, font, fill) ==
  LET ink == Ink(font, text, xy)
  IN [im EXCEPT !.px = [p \in DOMAIN im.px |->
                          IF p \in ink THEN ToRGBA(fill) ELSE im.px[p]]]

\* --------------------------------------------------------------- encoding
PNG_SIGNATURE == <<137, 80, 78, 71, 13, 10, 26, 10>>

\* l.90-92: background.save(buffer, format="PNG"): signature, header with
\* the raster's width and height, pixel rows top to bottom
EncodePNG(im) ==
  [signature |-> PNG_SIGNATURE,
   width |-> im.size[1], height |-> im.size[2], mode |-> im.mode,
   data |-> [i \in 1..(im.size[1] * im.size[2]) |->
               im.px[<<(i - 1) % im.size[1], (i - 1) \div im.size[1]>>]]]

\* the raster a PNG byte stream decodes to
DecodePNG(bytes) ==
  [mode |-> bytes.mode, size |-> <<bytes.width, bytes.height>>,
   px |-> [p \in (0..(bytes.width - 1)) \X (0..(bytes.height - 1)) |->
             bytes.data[p[2] * bytes.width + p[1] + 1]]]

\* ------------------------------------------------------------------ state
VARIABLES
  disk,      \* the asset files: path -> content
  reads,     \* how many times each asset path has been opened
  images,    \* heap of Image objects: identity -> raster
  pc,        \* per request: the statement it is at
  endpoint,  \* per request: "json" or "png"
  username,  \* per request: the {username} of the path
  frame,     \* per request: the locals of get_username_image
  response   \* per request: the responses sent, oldest first

vars == <<disk, reads, images, pc, endpoint, username, frame, response>>

\* variant: primary text drawn first, shadow after it
StepsTextFirst ==
  <<"load_background", "load_font", "layout", "draw_text", "draw_shadow",
    "save">>

\* the statements of get_username_image inside the try block, in order
Steps ==
  <<"load_background", "load_font", "layout", "draw_shadow", "draw_text",
    "save">>

StepIndex(s) == CHOOSE i \in 1..Len(Steps) : Steps[i] = s

NextStep(s) ==
  IF StepIndex(s) < Len(Steps) THEN Steps[StepIndex(s) + 1] ELSE "done"

\* variant: one Image object kept and handed to every request
NewImageShared(r) == 1

\* l.64: Image.open(...).convert("RGBA") returns an object of its own on
\* every call; each request makes one call
NewImage(r) == r

\* variant: a path already opened is served from a cache
ReadFileCached(log, path) ==
  IF log[path] >= 1 THEN log ELSE [log EXCEPT ![path] = @ + 1]

\* l.64-65: each call opens the file at path
ReadFile(log, path) == [log EXCEPT ![path] = @ + 1]

Store(heap, id, im) ==
  [i \in DOMAIN heap \cup {id} |-> IF i = id THEN im ELSE heap[i]]

\* variant: the context draws on a private copy of the object it is given
DrawOnCopy(heap, background) ==
  [images |-> [i \in DOMAIN heap \cup {background + MaxRequests} |->
                 IF i = background + MaxRequests THEN heap[background]
                 ELSE heap[i]],
   draw |-> background + MaxRequests]

\* l.68: draw = ImageDraw.Draw(background): the context draws on the
\* object it is given, no copy
Draw(heap, background) == [images |-> heap, draw |-> background]

ZeroQ == [n |-> 0, d |-> 1]

NoFrame ==
  [background |-> 0, font |-> Truetype(Missing, FONT_SIZE), draw |-> 0,
   img_width |-> 0, img_height |-> 0, display_text |-> "",
   text_bbox |-> <<0, 0, 0, 0>>, text_width |-> 0, text_height |-> 0,
   position |-> <<ZeroQ, ZeroQ>>, shadow_position |-> <<ZeroQ, ZeroQ>>]

\* variant: the text drawn is the bare username
FormatDisplayTextPlain(u) == u

\* l.72: display_text = f"@{username}"
FormatDisplayText(u) == "@" \o u

Init ==
  /\ disk \in [{BACKGROUND_IMAGE_PATH, FONT_PATH} -> BackgroundFiles \cup FontFiles]
  /\ disk[BACKGROUND_IMAGE_PATH] \in BackgroundFiles
  /\ disk[FONT_PATH] \in FontFiles
  /\ reads = [p \in {BACKGROUND_IMAGE_PATH, FONT_PATH} |-> 0]
  /\ images = [i \in {} |-> NoFrame]
  /\ pc = [r \in Requests |-> "idle"]
  /\ endpoint = [r \in Requests |-> "json"]
  /\ username = [r \in Requests |-> ""]
  /\ frame = [r \in Requests |-> NoFrame]
  /\ response = [r \in Requests |-> <<>>]

\* a request arrives; requests are numbered in their order of arrival
Start(r) ==
  /\ pc[r] = "idle"
  /\ \A q \in Requests : q < r => pc[q] # "idle"
  /\ \E e \in {"json", "png"}, u \in Usernames :
       /\ endpoint' = [endpoint EXCEPT ![r] = e]
       /\ username' = [username EXCEPT ![r] = u]
       /\ pc' = [pc EXCEPT ![r] = IF e = "json" THEN "json" ELSE Steps[1]]
  /\ UNCHANGED <<disk, reads, images, frame, response>>

\* l.39-50
GetUsernameJson(r) ==
  /\ pc[r] = "json"
  /\ response' = [response EXCEPT
       ![r] = Append(@, JSONResponse(200, BuildMetadata(username[r])))]
  /\ pc' = [pc EXCEPT ![r] = "done"]
  /\ UNCHANGED <<disk, reads, images, endpoint, username, frame>>

\* an exception leaves the try block: l.96-102
Raise(r, e) ==
  /\ response' = [response EXCEPT ![r] = Append(@, HandleException(e))]
  /\ pc' = [pc EXCEPT ![r] = "done"]

\* l.64
LoadBackground(r) ==
  /\ pc[r] = "load_background"
  /\ reads' = ReadFile(reads, BACKGROUND_IMAGE_PATH)
  /\ IF disk[BACKGROUND_IMAGE_PATH].kind = "image"
     THEN /\ images' = Store(images, NewImage(r),
                             ConvertRGBA(disk[BACKGROUND_IMAGE_PATH]))
          /\ frame' = [frame EXCEPT ![r].background = NewImage(r)]
          /\ pc' = [pc EXCEPT ![r] = NextStep("load_background")]
          /\ UNCHANGED response
     ELSE /\ Raise(r, OpenImageError(disk[BACKGROUND_IMAGE_PATH]))
          /\ UNCHANGED <<images, frame>>
  /\ UNCHANGED <<disk, endpoint, username>>

\* l.65
LoadFont(r) ==
  /\ pc[r] = "load_font"
  /\ reads' = ReadFile(reads, FONT_PATH)
  /\ IF disk[FONT_PATH].kind = "font"
     THEN /\ frame' = [frame EXCEPT
               ![r].font = Truetype(disk[FONT_PATH], FONT_SIZE)]
          /\ pc' = [pc EXCEPT ![r] = NextStep("load_font")]
          /\ UNCHANGED response
     ELSE /\ Raise(r, TruetypeError(disk[FONT_PATH]))
          /\ UNCHANGED frame
  /\ UNCHANGED <<disk, images, endpoint, username>>

\* l.68-81
Layout(r) ==
  /\ pc[r] = "layout"
  /\ LET f == frame[r]
         d == Draw(images, f.background)
         size == d.images[f.background].size
         text == FormatDisplayText(username[r])
         bbox == TextBBox(f.font, text)
         pos == Position(size[1], size[2], TextWidth(bbox), TextHeight(bbox))
     IN /\ images' = d.images
        /\ frame' = [frame EXCEPT
             ![r].draw = d.draw,
             ![r].img_width = size[1],
             ![r].img_height = size[2],
             ![r].display_text = text,
             ![r].text_bbox = bbox,
             ![r].text_width = TextWidth(bbox),
             ![r].text_height = TextHeight(bbox),
             ![r].position = pos,
             ![r].shadow_position = ShadowPosition(pos)]
  /\ pc' = [pc EXCEPT ![r] = NextStep("layout")]
  /\ UNCHANGED <<disk, reads, endpoint, username, response>>

\* l.84
DrawShadow(r) ==
  /\ pc[r] = "draw_shadow"
  /\ LET f == frame[r]
     IN images' = [images EXCEPT ![f.draw] =
          DrawText(@, f.shadow_position, f.display_text, f.font, SHADOW_COLOR)]
  /\ pc' = [pc EXCEPT ![r] = NextStep("draw_shadow")]
  /\ UNCHANGED <<disk, reads, endpoint, username, frame, response>>

\* l.87
DrawPrimary(r) ==
  /\ pc[r] = "draw_text"
  /\ LET f == frame[r]
     IN images' = [images EXCEPT ![f.draw] =
          DrawText(@, f.position, f.display_text, f.font, TEXT_COLOR)]
  /\ pc' = [pc EXCEPT ![r] = NextStep("draw_text")]
  /\ UNCHANGED <<disk, reads, endpoint, username, frame, response>>

\* l.90-94
Save(r) ==
  /\ pc[r] = "save"
  /\ response' = [response EXCEPT ![r] =
       Append(@, ImageResponse(EncodePNG(images[frame[r].background])))]
  /\ pc' = [pc EXCEPT ![r] = NextStep("save")]
  /\ UNCHANGED <<disk, reads, images, endpoint, username, frame>>

\* measuring, drawing or encoding fails (l.75-91)
Fail(r) ==
  /\ pc[r] \in {"layout", "draw_shadow", "draw_text", "save"}
  /\ \E e \in Faults : Raise(r, e)
  /\ UNCHANGED <<disk, reads, images, endpoint, username, frame>>

Next ==
  \E r \in Requests :
    \/ Start(r)
    \/ GetUsernameJson(r)
    \/ LoadBackground(r)
    \/ LoadFont(r)
    \/ Layout(r)
    \/ DrawShadow(r)
    \/ DrawPrimary(r)
    \/ Save(r)
    \/ Fail(r)

Spec == Init /\ [][Next]_vars

\* ---------------------------------------------------------------- helpers
Done(r) == pc[r] = "done"
Png(r) == endpoint[r] = "png" /\ pc[r] # "idle"
Json(r) == endpoint[r] = "json" /\ pc[r] # "idle"
Reply(r) == response[r][1]
Ok(r) == Done(r) /\ Len(response[r]) = 1 /\ Reply(r).status_code = 200

TypeOK ==
  /\ \A r \in Requests : pc[r] \in {"idle", "json", "done"} \cup
                                   {Steps[i] : i \in 1..Len(Steps)}

Template == ConvertRGBA(disk[BACKGROUND_IMAGE_PATH])
LaidOut(r) == Png(r) /\ frame[r].display_text # ""
Returned(r) == DecodePNG(Reply(r).content)

\* what request r's own text must look like, from its username alone
OwnText(r) == "@" \o username[r]
OwnFont == Truetype(disk[FONT_PATH], FONT_SIZE)
OwnPosition(r) ==
  LET b == TextBBox(OwnFont, OwnText(r))
  IN Position(Template.size[1], Template.size[2], b[3] - b[1], b[4] - b[2])
OwnInk(r) == Ink(OwnFont, OwnText(r), OwnPosition(r))
OwnShadowInk(r) == Ink(OwnFont, OwnText(r), ShadowPosition(OwnPosition(r)))

\* ------------------------------------------------------------------ C1
\* C1: however PNG requests interleave, every image returned shows, pixel
\* by pixel, the request's own text (primary over shadow) over the template
\* and nothing else, and the asset files are never written.
C1_Isolated ==
  /\ [](\A r \in Requests : (Png(r) /\ Ok(r)) =>
          LET out == Returned(r)
              tpl == Template
              ink == OwnInk(r)
              shadow == OwnShadowInk(r)
          IN /\ out.size = tpl.size
             /\ \A p \in DOMAIN tpl.px :
                  out.px[p] =
                    IF p \in ink THEN ToRGBA(TEXT_COLOR)
                    ELSE IF p \in shadow THEN ToRGBA(SHADOW_COLOR)
                    ELSE tpl.px[p])
  /\ [][disk' = disk]_vars

\* request 2 has returned its image while request 1, which arrived first
\* with another username, has drawn and not yet saved
C1_Witness ==
  /\ MaxRequests >= 2
  /\ Png(1) /\ pc[1] = "save"
  /\ Png(2) /\ Ok(2)
  /\ username[1] # username[2]

\* ------------------------------------------------------------------ C2
\* C2 as stated: after a render the raster object loaded for it has the
\* pixels it was loaded with, and only the returned raster shows the text.
C2_LoadedRasterUntouched ==
  \A r \in Requests : (Png(r) /\ Ok(r)) =>
    /\ images[frame[r].background].px = Template.px
    /\ \A p \in OwnInk(r) \cap DOMAIN Template.px :
         Returned(r).px[p] = ToRGBA(TEXT_COLOR)

\* C2 amended: the render draws in place on the raster object loaded for
\* the request, without a copy: the drawing context is bound to that
\* object, no other object is allocated, after the render that object
\* shows the text, and it is the raster that is encoded and returned.
C2_DrawnInPlace ==
  \A r \in Requests :
    /\ LaidOut(r) => frame[r].draw = frame[r].background
    /\ (Png(r) /\ Ok(r)) =>
         /\ \A p \in OwnInk(r) \cap DOMAIN Template.px :
              images[frame[r].background].px[p] = ToRGBA(TEXT_COLOR)
         /\ Reply(r).content = EncodePNG(images[frame[r].background])
    /\ DOMAIN images = {frame[q].background : q \in {x \in Requests :
                          Png(x) /\ frame[x].background # 0}}

\* a finished render whose loaded raster object no longer has the pixels
\* of the background file
C2_Witness ==
  \E r \in Requests :
    /\ Png(r) /\ Ok(r)
    /\ images[frame[r].background].px # Template.px
    /\ OwnInk(r) \cap DOMAIN Template.px # {}

\* ------------------------------------------------------------------ C3
\* C3 as stated: over any sequence of PNG requests the background file and
\* the font file are each loaded at most once.
C3_LoadedOnce ==
  /\ reads[BACKGROUND_IMAGE_PATH] <= 1
  /\ reads[FONT_PATH] <= 1

\* C3 amended: the background and the font are loaded by every PNG
\* request: the background file has been opened once per PNG request that
\* has passed its load, and the font file once per PNG request that loaded
\* its background and has passed its font load.
C3_LoadedPerRequest ==
  /\ reads[BACKGROUND_IMAGE_PATH] =
       Cardinality({r \in Requests : Png(r) /\ pc[r] # "load_background"})
  /\ reads[FONT_PATH] =
       Cardinality({r \in Requests :
          Png(r) /\ frame[r].background # 0 /\ pc[r] # "load_font"})

\* two PNG requests have been served and each asset was loaded twice
C3_Witness ==
  /\ Cardinality({r \in Requests : Png(r) /\ Ok(r)}) >= 2
  /\ reads[BACKGROUND_IMAGE_PATH] >= 2
  /\ reads[FONT_PATH] >= 2

\* ------------------------------------------------------------------ C4
\* C4: the shadow is drawn before the primary text: a request about to
\* draw its primary text has its shadow on the canvas already, and in every
\* returned image each pixel covered by both the shadow glyphs and the
\* primary glyphs has the primary text colour.
C4_PrimaryOverShadow ==
  \A r \in Requests :
    /\ (Png(r) /\ pc[r] = "draw_text") =>
         \A p \in OwnShadowInk(r) \cap DOMAIN Template.px :
           images[frame[r].draw].px[p] = ToRGBA(SHADOW_COLOR)
    /\ (Png(r) /\ Ok(r)) =>
         \A p \in OwnInk(r) \cap OwnShadowInk(r) \cap DOMAIN Template.px :
           Returned(r).px[p] = ToRGBA(TEXT_COLOR)

\* a returned image in which shadow glyphs and primary glyphs overlap on
\* the canvas, and in which some shadow is visible beside the text
C4_Witness ==
  \E r \in Requests :
    /\ Png(r) /\ Ok(r)
    /\ OwnInk(r) \cap OwnShadowInk(r) \cap DOMAIN Template.px # {}
    /\ \E p \in DOMAIN Template.px : Returned(r).px[p] = ToRGBA(SHADOW_COLOR)

\* ------------------------------------------------------------------ C5
\* C5: the record the JSON endpoint returns for username u has an image
\* made of the base URL, a slash, u character for character, and ".png",
\* the fixed description, and no attributes.
C5_ImageUrlVerbatim ==
  \A r \in Requests : (Json(r) /\ Done(r)) =>
    LET m == Reply(r).content
        u == username[r]
        b == Len(BASE_URL)
    IN /\ Len(m.image) = b + 1 + Len(u) + 4
       /\ SubSeq(m.image, 1, b) = BASE_URL
       /\ SubSeq(m.image, b + 1, b + 1) = "/"
       /\ SubSeq(m.image, b + 2, b + 1 + Len(u)) = u
       /\ SubSeq(m.image, b + 2 + Len(u), Len(m.image)) = ".png"
       /\ m.description = "An ETN Ecosystem Username."
       /\ m.attributes = <<>>

\* a metadata record returned for a username with an upper-case letter
C5_Witness ==
  \E r \in Requests :
    /\ Json(r) /\ Done(r) /\ Len(response[r]) = 1
    /\ \E i \in 1..Len(username[r]) : Char(username[r], i) = "B"

\* ------------------------------------------------------------------ C6
\* the name a style profile asks for
ProfileName(profile, u) == IF profile = "at-prefixed" THEN "@" \o u ELSE u

\* C6 as stated: whichever of the two profiles is selected, the name of
\* the returned record is the one that profile asks for.
C6_NamePerProfile ==
  \A r \in Requests : (Json(r) /\ Done(r)) =>
    \A profile \in {"at-prefixed", "plain"} :
      Reply(r).content.name = ProfileName(profile, username[r])

\* C6 amended: for every username u the name of the returned record is
\* "@" followed by u; the endpoint has this one format and takes no
\* profile.
C6_NameAtPrefixed ==
  \A r \in Requests : (Json(r) /\ Done(r)) =>
    LET name == Reply(r).content.name
    IN /\ Len(name) = Len(username[r]) + 1
       /\ SubSeq(name, 1, 1) = "@"
       /\ SubSeq(name, 2, Len(name)) = username[r]

\* a metadata record has been returned for a username of two characters
C6_Witness ==
  \E r \in Requests :
    /\ Json(r) /\ Done(r) /\ Len(response[r]) = 1
    /\ Len(username[r]) >= 2

\* ------------------------------------------------------------------ C7
AssetNotFound ==
  JSONResponse(500,
    [error |-> "Server asset file not found (background or font)."])

\* C7: a PNG request ends in exactly one response: the asset-not-found
\* response when the failure it met is a missing background or font file,
\* a 500 carrying the failure's message when it met another failure, and
\* a 200 image/png otherwise.
C7_PngResponses ==
  \A r \in Requests : Png(r) =>
    /\ Len(response[r]) = IF Done(r) THEN 1 ELSE 0
    /\ Done(r) =>
         IF disk[BACKGROUND_IMAGE_PATH].kind = "missing"
            \/ (frame[r].background # 0 /\ disk[FONT_PATH].kind = "missing")
         THEN Reply(r) = AssetNotFound
         ELSE \/ /\ Reply(r).status_code = 200
                 /\ Reply(r).media_type = "image/png"
              \/ /\ Reply(r).status_code = 500
                 /\ Reply(r).media_type = "application/json"
                 /\ Reply(r).content.error \in
                      {OpenImageError(Corrupt).msg, TruetypeError(Corrupt).msg}
                        \cup {e.msg : e \in Faults}

\* ------------------------------------------------------------------ C8
\* C8: once a request has laid its text out, the measured string is the
\* string that is drawn, textWidth = right - left and textHeight = bottom
\* - top of its bounding box, the primary position is x = (W - textWidth)
\* / 2 and y = (H - textHeight) / 2.1 for the canvas W x H, and the shadow
\* position is (x + 5, y + 7).
C8_Layout ==
  \A r \in Requests : LaidOut(r) =>
    LET f == frame[r]
        W == Template.size[1]
        H == Template.size[2]
        x == f.position[1]
        y == f.position[2]
        sx == f.shadow_position[1]
        sy == f.shadow_position[2]
    IN /\ f.text_bbox = TextBBox(f.font, f.display_text)
       /\ f.text_width = f.text_bbox[3] - f.text_bbox[1]
       /\ f.text_height = f.text_bbox[4] - f.text_bbox[2]
       /\ 2 * x.n = (W - f.text_width) * x.d
       /\ 21 * y.n = 10 * (H - f.text_height) * y.d
       /\ sx.n * x.d = (x.n + 5 * x.d) * sx.d
       /\ sy.n * y.d = (y.n + 7 * y.d) * sy.d

\* a layout whose bounding box does not start at the origin and whose
\* positions are fractional, for text wider than the canvas
C8_Witness ==
  \E r \in Requests :
    /\ LaidOut(r)
    /\ frame[r].text_bbox[1] > 0 /\ frame[r].text_bbox[2] > 0
    /\ frame[r].text_width > frame[r].img_width
    /\ frame[r].position[1].n % frame[r].position[1].d # 0
    /\ frame[r].position[2].n % frame[r].position[2].d # 0

\* ------------------------------------------------------------------ C9
\* C9: every image returned is a PNG stream of content type image/png
\* that decodes to a raster of exactly the template's width and height,
\* also when the text is wider or taller than the canvas.
C9_SizePreserved ==
  \A r \in Requests : (Png(r) /\ Ok(r)) =>
    /\ Reply(r).media_type = "image/png"
    /\ Reply(r).content.signature = <<137, 80, 78, 71, 13, 10, 26, 10>>
    /\ Reply(r).content.width = disk[BACKGROUND_IMAGE_PATH].size[1]
    /\ Reply(r).content.height = disk[BACKGROUND_IMAGE_PATH].size[2]
    /\ Len(Reply(r).content.data) =
         disk[BACKGROUND_IMAGE_PATH].size[1] * disk[BACKGROUND_IMAGE_PATH].size[2]

\* an image returned for text wider and taller than the canvas, part of
\* whose ink fell outside it
C9_Witness ==
  \E r \in Requests :
    /\ Png(r) /\ Ok(r)
    /\ frame[r].text_width > frame[r].img_width
    /\ frame[r].text_height > frame[r].img_height
    /\ OwnInk(r) \ DOMAIN Template.px # {}

\* ----------------------------------------------------------------- C10
\* C10: the JSON endpoint answers 200 with the metadata record whatever
\* the asset files hold and whatever PNG requests did, it opens no asset
\* and touches no raster, and the name it reports is the string the PNG
\* endpoint draws for the same username.
C10_JsonIndependent ==
  /\ [](\A r \in Requests : (Json(r) /\ Done(r)) =>
          /\ Len(response[r]) = 1
          /\ Reply(r).status_code = 200
          /\ Reply(r).media_type = "application/json"
          /\ Reply(r).content.name = "@" \o username[r]
          /\ Reply(r).content.image = BASE_URL \o "/" \o username[r] \o ".png"
          /\ \A q \in Requests :
               (LaidOut(q) /\ username[q] = username[r]) =>
                 frame[q].display_text = Reply(r).content.name)
  /\ [][\A r \in Requests :
          (pc[r] = "json" /\ pc'[r] = "done") =>
            (reads' = reads /\ images' = images /\ disk' = disk)]_vars

\* a metadata record returned while the background file is missing and
\* after a PNG request has failed with status 500
C10_Witness ==
  \E r, q \in Requests :
    /\ q < r
    /\ Json(r) /\ Done(r) /\ Reply(r).status_code = 200
    /\ Png(q) /\ Done(q) /\ Reply(q).status_code = 500
    /\ disk[BACKGROUND_IMAGE_PATH].kind = "missing"

====
